---- MODULE Spec2Model ----
(***************************************************************************)
(* A model of vcf_pheno_core.py: parse_vcf (header loop, record loop,      *)
(* annotation selection, statistics), load_hpo_map, phenotype_score and    *)
(* prioritize.                                                             *)
(*                                                                         *)
(* Text.  A Python str is a sequence of atoms.  Every character the code   *)
(* inspects on its own (tab, newline, space, '#', ';', '=', ',', '|', ':', *)
(* '"', '>') is an atom of its own; a run of other characters is written   *)
(* as one atom ("chr1", "HIGH"), except in REF and ALT, where every base   *)
(* is an atom because the code takes len() of them.  "" is <<>>.           *)
(*                                                                         *)
(* Optional values.  Python None is None == <<>>, a present value x is     *)
(* Some(x) == <<x>>, so the empty string Some(<<>>) differs from None.     *)
(*                                                                         *)
(* Floats are held in tenths (0.5 is 5, 6.5 is 65): every literal of the   *)
(* inputs and every weight of the score is a multiple of 0.1.              *)
(***************************************************************************)
EXTENDS Integers, Sequences, FiniteSets, TLC

None == <<>>
Some(x) == <<x>>

TAB == "\t"
NL == "\n"
SP == " "

Max(a, b) == IF a >= b THEN a ELSE b

(* ---------------- str methods ---------------- *)

\* s.startswith(p)
StartsWith(s, p) == Len(s) >= Len(p) /\ SubSeq(s, 1, Len(p)) = p

\* d in s
Contains(s, d) == \E i \in 1..Len(s) : s[i] = d

\* s.index(d, i-1) + 1, for d in s at or after the 1-based position i
RECURSIVE IndexFrom(_, _, _)
IndexFrom(s, d, i) == IF s[i] = d THEN i ELSE IndexFrom(s, d, i + 1)

\* s.index(d) + 1, for d in s
IndexOf(s, d) == IndexFrom(s, d, 1)

\* s.split(d): always at least one piece, "".split(d) == [""]
RECURSIVE Split(_, _)
Split(s, d) ==
  IF ~Contains(s, d) THEN <<s>>
  ELSE LET i == IndexOf(s, d)
       IN <<SubSeq(s, 1, i-1)>> \o Split(SubSeq(s, i+1, Len(s)), d)

\* s.split(d, 1) for d in s: the pair (before the first d, after it)
Split1(s, d) ==
  LET i == IndexOf(s, d) IN <<SubSeq(s, 1, i-1), SubSeq(s, i+1, Len(s))>>

\* d.join(parts), used to write the inputs
RECURSIVE Join(_, _)
Join(parts, d) ==
  IF Len(parts) = 0 THEN <<>>
  ELSE IF Len(parts) = 1 THEN parts[1]
  ELSE parts[1] \o <<d>> \o Join(Tail(parts), d)

\* s.rstrip("\n")
RECURSIVE RStripNL(_)
RStripNL(s) ==
  IF Len(s) > 0 /\ s[Len(s)] = NL THEN RStripNL(SubSeq(s, 1, Len(s)-1)) ELSE s

IsSpace(a) == a \in {SP, TAB, NL}

RECURSIVE LStrip(_)
LStrip(s) == IF Len(s) > 0 /\ IsSpace(s[1]) THEN LStrip(Tail(s)) ELSE s

RECURSIVE RStrip(_)
RStrip(s) ==
  IF Len(s) > 0 /\ IsSpace(s[Len(s)]) THEN RStrip(SubSeq(s, 1, Len(s)-1)) ELSE s

\* s.strip()
Strip(s) == LStrip(RStrip(s))

\* str.upper() of one atom: the lower-case words of the inputs
UpperAtom(a) ==
  CASE a = "brca1" -> "BRCA1"
    [] a = "tp53" -> "TP53"
    [] a = "high" -> "HIGH"
    [] a = "a" -> "A"
    [] a = "g" -> "G"
    [] OTHER -> a

\* s.upper()
Upper(s) == [i \in 1..Len(s) |-> UpperAtom(s[i])]

(* ---------------- numbers ---------------- *)

\* The numeric literals of the inputs and float(literal), in tenths.
FloatLit ==
  ("100" :> 1000) @@ ("200" :> 2000) @@ ("50" :> 500) @@ ("30" :> 300) @@
  ("60" :> 600) @@ ("0" :> 0) @@ ("1" :> 10) @@ ("0.1" :> 1) @@ ("0.5" :> 5) @@
  ("1.5" :> 15) @@ ("-0.5" :> -5)

\* The literals int() accepts, and their values.
IntLit == ("100" :> 100) @@ ("200" :> 200) @@ ("50" :> 50) @@ ("30" :> 30) @@
  ("60" :> 60) @@ ("0" :> 0) @@ ("1" :> 1)

\* float(s) of a str: Some(value), or None where float() raises ValueError
FloatOfStr(s) ==
  LET t == Strip(s)
  IN IF Len(t) = 1 /\ t[1] \in DOMAIN FloatLit THEN Some(FloatLit[t[1]]) ELSE None

\* _to_float(x) of an optional str: float(None) raises TypeError, caught too
_to_float(x) == IF x = None THEN None ELSE FloatOfStr(x[1])

\* int(s) succeeds
IntOk(s) == LET t == Strip(s) IN Len(t) = 1 /\ t[1] \in DOMAIN IntLit

IntOf(s) == IntLit[Strip(s)[1]]

(* ---------------- parse_vcf: the info mapping ---------------- *)

\* A value of info_dict: a str (k=v), or True (a key without '=').
StrVal(v) == [flag |-> FALSE, v |-> v]
FlagVal == [flag |-> TRUE, v |-> <<>>]

\* str(info_dict[k])
StrOf(val) == IF val.flag THEN <<"True">> ELSE val.v

\* info_dict after the loop over info.split(";"): a later key overwrites
RECURSIVE InfoFold(_, _)
InfoFold(kvs, d) ==
  IF Len(kvs) = 0 THEN d
  ELSE LET kv == Head(kvs)
           d2 == IF Len(kv) = 0 THEN d
                 ELSE IF Contains(kv, "=")
                      THEN LET p == Split1(kv, "=")
                           IN (p[1] :> StrVal(p[2])) @@ d
                      ELSE (kv :> FlagVal) @@ d
       IN InfoFold(Tail(kvs), d2)

InfoDict(info) == InfoFold(Split(info, ";"), <<>>)

\* first_float(info_dict, keys): a key whose value does not parse is passed over
RECURSIVE first_float(_, _)
first_float_stop(info_dict, keys) ==
  IF Len(keys) = 0 THEN None
  ELSE LET k == Head(keys)
       IN IF k \in DOMAIN info_dict
          THEN FloatOfStr(Split(StrOf(info_dict[k]), ",")[1])
          ELSE first_float(info_dict, Tail(keys))
first_float(info_dict, keys) ==
  IF Len(keys) = 0 THEN None
  ELSE LET k == Head(keys)
       IN IF k \in DOMAIN info_dict
             /\ FloatOfStr(Split(StrOf(info_dict[k]), ",")[1]) # None
          THEN FloatOfStr(Split(StrOf(info_dict[k]), ",")[1])
          ELSE first_float(info_dict, Tail(keys))

AF_KEYS == << <<"AF">>, <<"AF_POPMAX">>, <<"gnomAD_AF">>, <<"VAF">> >>
MQ_KEYS == << <<"MQ">> >>

(* ---------------- parse_vcf: annotation selection ---------------- *)

\* len(ann_fields)
AnnFieldCount == 16

\* rank.get(imp, 0)
ImpactRank(imp) ==
  CASE imp = <<"HIGH">> -> 3
    [] imp = <<"MODERATE">> -> 2
    [] imp = <<"LOW">> -> 1
    [] imp = <<"MODIFIER">> -> 0
    [] OTHER -> 0

\* if r > best_rank
BetterLast(r, best_rank) == r >= best_rank
Better(r, best_rank) == r > best_rank

\* The selection loop shared by both conventions: cands are the tuples
\* (sym, ann, imp, hgc, hgp) in entry order; acc is (best, best_rank).
RECURSIVE SelectBest(_, _)
SelectBest(cands, acc) ==
  IF Len(cands) = 0 THEN acc
  ELSE LET c == Head(cands)
           r == ImpactRank(c[3])
       IN SelectBest(Tail(cands),
                     IF Better(r, acc.best_rank)
                     THEN [best |-> Some(c), best_rank |-> r]
                     ELSE acc)

BestInit == [best |-> None, best_rank |-> -1]

\* fields += [""] * (len(ann_fields) - len(fields))
Pad(fields) ==
  fields \o [i \in 1..Max(0, AnnFieldCount - Len(fields)) |-> <<>>]

\* One ANN entry: (sym, ann, imp, hgc, hgp) = fields[3], [1], [2], [9], [10]
AnnCand(e) ==
  LET fields == Pad(Split(e, "|"))
  IN <<fields[4], fields[2], fields[3], fields[10], fields[11]>>

\* "F0", "F1", ...: the synthetic key of a value beyond the declared names
FName == <<"F0", "F1", "F2", "F3", "F4", "F5", "F6", "F7", "F8", "F9", "F10", "F11">>

\* d.get(k, "") of the dict comprehension over range(max(len(vals), len(fields)));
\* i is 0-based as in the code, a repeated key keeps its last value
CsqGet(fields, vals, k) ==
  LET n == Max(Len(vals), Len(fields))
      key(i) == IF i < Len(fields) THEN fields[i+1] ELSE <<FName[i+1]>>
      val(i) == IF i < Len(vals) THEN vals[i+1] ELSE <<>>
      hits == {i \in 0..(n-1) : key(i) = k}
  IN IF hits = {} THEN <<>>
     ELSE val(CHOOSE i \in hits : \A j \in hits : j <= i)

\* One CSQ entry under the declared names (csq_fields or [])
CsqCand(fields, e) ==
  LET vals == Split(e, "|")
      c1 == CsqGet(fields, vals, <<"Consequence">>)
      cons == IF c1 # <<>> THEN c1 ELSE CsqGet(fields, vals, <<"CONSEQUENCE">>)
  IN <<CsqGet(fields, vals, <<"SYMBOL">>), cons, CsqGet(fields, vals, <<"IMPACT">>),
       CsqGet(fields, vals, <<"HGVSc">>), CsqGet(fields, vals, <<"HGVSp">>)>>

\* The annotation of a record: [raises, gene, conseq, impact, hgvsc, hgvsp].
\* info_dict["ANN"].split(",") on True raises AttributeError.
NoAnnotation ==
  [raises |-> FALSE, gene |-> None, conseq |-> None, impact |-> None,
   hgvsc |-> None, hgvsp |-> None]

FromBest(acc) ==
  IF acc.best = None THEN NoAnnotation
  ELSE LET b == acc.best[1]
       IN [raises |-> FALSE, gene |-> Some(b[1]), conseq |-> Some(b[2]),
           impact |-> Some(b[3]), hgvsc |-> Some(b[4]), hgvsp |-> Some(b[5])]

AnnotateCsqFirst(info_dict, csqf) ==
  IF <<"CSQ">> \in DOMAIN info_dict
  THEN IF info_dict[<<"CSQ">>].flag THEN [NoAnnotation EXCEPT !.raises = TRUE]
       ELSE LET es == Split(info_dict[<<"CSQ">>].v, ",")
                fields == IF csqf = None THEN <<>> ELSE csqf[1]
            IN FromBest(SelectBest([i \in 1..Len(es) |-> CsqCand(fields, es[i])],
                                   BestInit))
  ELSE IF <<"ANN">> \in DOMAIN info_dict
  THEN IF info_dict[<<"ANN">>].flag THEN [NoAnnotation EXCEPT !.raises = TRUE]
       ELSE LET es == Split(info_dict[<<"ANN">>].v, ",")
            IN FromBest(SelectBest([i \in 1..Len(es) |-> AnnCand(es[i])], BestInit))
  ELSE NoAnnotation

Annotate(info_dict, csq_fields) ==
  IF <<"ANN">> \in DOMAIN info_dict
  THEN IF info_dict[<<"ANN">>].flag THEN [NoAnnotation EXCEPT !.raises = TRUE]
       ELSE LET es == Split(info_dict[<<"ANN">>].v, ",")
            IN FromBest(SelectBest([i \in 1..Len(es) |-> AnnCand(es[i])], BestInit))
  ELSE IF <<"CSQ">> \in DOMAIN info_dict
  THEN IF info_dict[<<"CSQ">>].flag THEN [NoAnnotation EXCEPT !.raises = TRUE]
       ELSE LET es == Split(info_dict[<<"CSQ">>].v, ",")
                fields == IF csq_fields = None THEN <<>> ELSE csq_fields[1]
            IN FromBest(SelectBest([i \in 1..Len(es) |-> CsqCand(fields, es[i])],
                                   BestInit))
  ELSE NoAnnotation

(* ---------------- parse_vcf: the header loop ---------------- *)

\* The longest prefix of s with no atom in stop
RECURSIVE TakeUntil(_, _)
TakeUntil(s, stop) ==
  IF Len(s) = 0 \/ s[1] \in stop THEN <<>>
  ELSE <<s[1]>> \o TakeUntil(Tail(s), stop)

RECURSIVE SpaceRun(_)
SpaceRun(s) == IF Len(s) > 0 /\ IsSpace(s[1]) THEN 1 + SpaceRun(Tail(s)) ELSE 0

\* re.search(r"Format:\s*([^\">]+)", line).group(1), or None without a match:
\* the first "Format:" after which, the white space passed over, at least one
\* character other than '"' and '>' follows (\s* gives one back if it must)
RECURSIVE FormatGroup(_)
FormatGroup(s) ==
  IF Len(s) < 2 THEN None
  ELSE IF s[1] = "Format" /\ s[2] = ":"
       THEN LET rest == SubSeq(s, 3, Len(s))
                ws == SpaceRun(rest)
                run == TakeUntil(SubSeq(rest, ws+1, Len(rest)), {"\"", ">"})
            IN IF Len(run) > 0 THEN Some(run)
               ELSE IF ws > 0 THEN Some(<<rest[ws]>>)
               ELSE FormatGroup(Tail(s))
       ELSE FormatGroup(Tail(s))

CsqDeclPrefix == <<"#", "#", "INFO", "=", "<ID", "=", "CSQ">>

\* csq_fields after a "##" line
CsqFieldsAfter(line, csq_fields) ==
  IF StartsWith(line, CsqDeclPrefix) /\ FormatGroup(line) # None
  THEN LET fs == Split(FormatGroup(line)[1], "|")
       IN Some([i \in 1..Len(fs) |-> Strip(fs[i])])
  ELSE csq_fields

\* samples after the "#CHROM" line
SamplesOf(line) ==
  LET parts == Split(RStripNL(line), TAB)
  IN IF Len(parts) > 8 THEN SubSeq(parts, 10, Len(parts)) ELSE <<>>

(* ---------------- parse_vcf: statistics ---------------- *)

StatsInit ==
  [n_total |-> 0, n_pass |-> 0, snps |-> 0, indels |-> 0,
   by_chrom |-> <<>>, filters |-> <<>>, ti |-> 0, tv |-> 0]

\* d[k] = d.get(k, 0) + 1
BumpOnly(d, k) == (k :> (IF k \in DOMAIN d THEN d[k] + 1 ELSE 1))
Bump(d, k) == IF k \in DOMAIN d THEN [d EXCEPT ![k] = @ + 1] ELSE (k :> 1) @@ d

\* len(ref)==1 and len(a)==1
IsSnp(ref, a) == Len(ref) = 1 /\ Len(a) = 1

\* (ref, a) in [("A","G"),("G","A"),("C","T"),("T","C")]
IsTransitionOneWay(ref, a) == <<ref, a>> \in {<< <<"A">>, <<"G">> >>, << <<"C">>, <<"T">> >>}
IsTransition(ref, a) ==
  <<ref, a>> \in {<< <<"A">>, <<"G">> >>, << <<"G">>, <<"A">> >>,
                   << <<"C">>, <<"T">> >>, << <<"T">>, <<"C">> >>}

\* the loop over alt.split(",")
RECURSIVE AlleleFold(_, _, _)
AlleleFoldTvElse(ref, alts, st) ==
  IF Len(alts) = 0 THEN st
  ELSE LET a == Head(alts)
           st2 == IF IsSnp(ref, a) /\ IsTransition(ref, a)
                  THEN [st EXCEPT !.snps = @ + 1, !.ti = @ + 1]
                  ELSE IF IsSnp(ref, a)
                  THEN [st EXCEPT !.snps = @ + 1, !.tv = @ + 1]
                  ELSE [st EXCEPT !.indels = @ + 1, !.tv = @ + 1]
       IN AlleleFold(ref, Tail(alts), st2)
AlleleFold(ref, alts, st) ==
  IF Len(alts) = 0 THEN st
  ELSE LET a == Head(alts)
           st2 == IF IsSnp(ref, a)
                  THEN IF IsTransition(ref, a)
                       THEN [st EXCEPT !.snps = @ + 1, !.ti = @ + 1]
                       ELSE [st EXCEPT !.snps = @ + 1, !.tv = @ + 1]
                  ELSE [st EXCEPT !.indels = @ + 1]
       IN AlleleFold(ref, Tail(alts), st2)

\* flt in ("PASS", ".")
IsPassOnly(flt) == flt = <<"PASS">>
IsPass(flt) == flt \in {<<"PASS">>, <<".">>}

\* stats after one data line (lines 71-85)
StatsAfter(st, chrom, ref, alt, flt) ==
  LET s1 == [st EXCEPT !.n_total = @ + 1, !.filters = Bump(@, flt)]
      s2 == IF IsPass(flt) THEN [s1 EXCEPT !.n_pass = @ + 1] ELSE s1
      s3 == AlleleFold(ref, Split(alt, ","), s2)
  IN [s3 EXCEPT !.by_chrom = Bump(@, chrom)]

(* ---------------- parse_vcf: one data line ---------------- *)

\* dict(zip(fmt_keys, sv)).get(k, None): zip stops at the shorter list
FmGet(fmt_keys, sv, k) ==
  LET n == IF Len(fmt_keys) <= Len(sv) THEN Len(fmt_keys) ELSE Len(sv)
      hits == {i \in 1..n : fmt_keys[i] = k}
  IN IF hits = {} THEN None
     ELSE Some(sv[CHOOSE i \in hits : \A j \in hits : j <= i])

\* len(parts) < 8
MinFields == 8

\* The line is passed over by the record loop before anything is counted
SkippedNoLengthCheck(line) == Len(line) = 0 \/ StartsWith(line, <<"#">>)
Skipped(line) ==
  \/ Len(line) = 0
  \/ StartsWith(line, <<"#">>)
  \/ Len(Split(RStripNL(line), TAB)) < MinFields

\* One iteration of the record loop on a line that is not skipped:
\* [raises, stats, rec].  Unpacking parts[:8] into eight names raises
\* ValueError on fewer parts.  The statistics are updated before info is read
\* and before int(pos), so a line that raises there has already been counted.
ParseLine(line, csqf, st) ==
  LET parts == Split(RStripNL(line), TAB)
      chrom == parts[1]
      pos == parts[2]
      ref == parts[4]
      alt == parts[5]
      qual == parts[6]
      flt == parts[7]
      info == parts[8]
      fmt == IF Len(parts) > 8 THEN Some(parts[9]) ELSE None
      sample_vals == IF Len(parts) > 9 THEN SubSeq(parts, 10, Len(parts)) ELSE <<>>
      has_fm == fmt # None /\ fmt # Some(<<>>) /\ Len(sample_vals) > 0
      fmt_keys == Split(fmt[1], ":")
      sv == Split(sample_vals[1], ":")
      gt == IF has_fm THEN FmGet(fmt_keys, sv, <<"GT">>) ELSE None
      dp == IF has_fm THEN _to_float(FmGet(fmt_keys, sv, <<"DP">>)) ELSE None
      ad == IF has_fm THEN FmGet(fmt_keys, sv, <<"AD">>) ELSE None
      st2 == StatsAfter(st, chrom, ref, alt, flt)
      info_dict == InfoDict(info)
      af == first_float(info_dict, AF_KEYS)
      mq == first_float(info_dict, MQ_KEYS)
      ann == Annotate(info_dict, csqf)
  IN IF Len(parts) < 8
     THEN [raises |-> TRUE, stats |-> st, rec |-> <<>>]
     ELSE IF ann.raises \/ ~IntOk(pos)
     THEN [raises |-> TRUE, stats |-> st2, rec |-> <<>>]
     ELSE [raises |-> FALSE, stats |-> st2,
           rec |-> [CHROM |-> chrom, POS |-> IntOf(pos), REF |-> ref, ALT |-> alt,
                    QUAL |-> _to_float(Some(qual)), FILTER |-> flt,
                    AF |-> af, DP |-> dp, MQ |-> mq, AD |-> ad,
                    GENE |-> ann.gene, CONSEQUENCE |-> ann.conseq,
                    IMPACT |-> ann.impact, HGVSc |-> ann.hgvsc,
                    HGVSp |-> ann.hgvsp, GT |-> gt]]

(* ---------------- state ---------------- *)

VARIABLES
  lines,         \* fh: the lines of the input text, in order
  max_variants,  \* parse_vcf's max_variants
  fh,            \* the 1-based index of the next line the iterator fh yields
  pc,            \* "header" (first loop), "records" (second loop), "done"
                 \* (returned), "raised" (an exception left parse_vcf);
                 \* "load", "score", "scored", "ranked", "reranked" in
                 \* the ranking runs
  csq_fields,    \* None, or Some(list of declared CSQ field names)
  samples,       \* the sample names of the #CHROM line
  records,       \* the list of record dicts
  stats,         \* the stats dict
  origin,        \* history: origin[i] is the index in lines of records[i]'s line
  variants_df,   \* phenotype_score's variants_df (rows in order)
  hpo_terms,     \* phenotype_score's hpo_terms
  hpo_map,       \* phenotype_score's hpo_map: None or Some(rows)
  panel_genes,   \* phenotype_score's panel_genes: None or Some(list)
  frame          \* the data frame phenotype_score, then prioritize, returned

vars == <<lines, max_variants, fh, pc, csq_fields, samples, records, stats,
          origin, variants_df, hpo_terms, hpo_map, panel_genes, frame>>

parse_vars == <<lines, max_variants, fh, csq_fields, samples, records, stats, origin>>
rank_vars == <<variants_df, hpo_terms, hpo_map, panel_genes, frame>>

(* ---------------- inputs of parse_vcf ---------------- *)

\* The set of sequences over S of length at most n
SeqsUpTo(S, n) == UNION {[1..k -> S] : k \in 0..n}

\* A data line from its fields; extra are the FORMAT and sample columns
DataLine(f) ==
  Join(<<f.chrom, f.pos, <<".">>, f.ref, f.alt, f.qual, f.flt, f.info>> \o f.extra, TAB)
    \o <<NL>>

Plain ==
  [chrom |-> <<"chr1">>, pos |-> <<"100">>, ref |-> <<"A">>, alt |-> <<"G">>,
   qual |-> <<"50">>, flt |-> <<"PASS">>, info |-> <<>>, extra |-> <<>>]

MetaLine == <<"#", "#", "fileformat", "=", "VCFv4.2", NL>>

\* ##INFO=<ID=CSQ,...,Description="... Format: Allele|Consequence|IMPACT|SYMBOL">
CsqDecl ==
  CsqDeclPrefix \o <<",", "Number", "=", ".", ",", "Description", "=", "\"",
                     "Consequence", SP, "annotations.", SP, "Format", ":", SP>>
    \o Join(<< <<"Allele">>, <<"Consequence">>, <<"IMPACT">>, <<"SYMBOL">> >>, "|")
    \o <<"\"", ">", NL>>

ChromCols ==
  << <<"#", "CHROM">>, <<"POS">>, <<"ID">>, <<"REF">>, <<"ALT">>, <<"QUAL">>,
     <<"FILTER">>, <<"INFO">> >>

ChromLine8 == Join(ChromCols, TAB) \o <<NL>>
ChromLine11 ==
  Join(ChromCols \o << <<"FORMAT">>, <<"S1">>, <<"S2">> >>, TAB) \o <<NL>>

\* The lines before the data lines: none at all (no column-header line), a
\* plain header, a header declaring the CSQ schema and two samples
Headers ==
  { <<>>, <<MetaLine, ChromLine8>>, <<MetaLine, CsqDecl, ChromLine11>> }

\* An ANN/CSQ entry from its '|'-separated values
Entry(vals) == Join(vals, "|")

\* ANN/CSQ entries: allele|annotation|impact|gene, one with HGVS slots
Entries ==
  { Entry(<< <<"G">>, <<"missense_variant">>, <<"HIGH">>, <<"BRCA1">> >>),
    Entry(<< <<"G">>, <<"synonymous_variant">>, <<"LOW">>, <<"TP53">> >>),
    Entry(<< <<"G">>, <<"stop_gained">>, <<"HIGH">>, <<"TP53">>, <<>>, <<>>, <<>>,
             <<>>, <<>>, <<"c.1A>G">>, <<"p.M1V">> >>) }

MaxEntries == 2

EntryLists == SeqsUpTo(Entries, MaxEntries) \ {<<>>}

\* The INFO strings of the annotation runs: every list of entries under
\* either key, and no annotation, an empty value, an entry of the allele
\* only, MODIFIER before an unrecognized impact and after one, both keys
AnnInfos ==
  {<<"ANN", "=">> \o Join(es, ",") : es \in EntryLists}
  \cup {<<"CSQ", "=">> \o Join(es, ",") : es \in EntryLists}
  \cup { <<>>, <<"DP", "=", "30">>, <<"ANN", "=">>, <<"CSQ", "=">>,
         <<"ANN", "=", "G">>, <<"CSQ", "=", "G">>,
         <<"ANN", "=">> \o Entry(<< <<"G">>, <<"x">>, <<"MODIFIER">>, <<"BRCA1">> >>)
           \o <<",">> \o Entry(<< <<"G">>, <<"y">>, <<"weird">>, <<"TP53">> >>),
         <<"ANN", "=">> \o Entry(<< <<"G">>, <<"y">>, <<"weird">>, <<"TP53">> >>)
           \o <<",">> \o Entry(<< <<"G">>, <<"x">>, <<"MODIFIER">>, <<"BRCA1">> >>),
         <<"ANN", "=">> \o Entry(<< <<"G">>, <<"x">>, <<"LOW">>, <<"BRCA1">> >>)
           \o <<";", "CSQ", "=">>
           \o Entry(<< <<"G">>, <<"y">>, <<"HIGH">>, <<"TP53">> >>) }

AnnLines == {DataLine([Plain EXCEPT !.info = i]) : i \in AnnInfos}

\* The data lines of the general runs: well-formed lines, lines that are
\* passed over, and lines whose optional or numeric fields do not parse
GenLines ==
  { DataLine(Plain),
    DataLine([Plain EXCEPT !.chrom = <<"chr2">>, !.flt = <<".">>,
                           !.alt = <<"G", ",", "A", "T">>]),
    DataLine([Plain EXCEPT !.flt = <<"q10">>, !.ref = <<"A", "T">>, !.alt = <<"A">>,
                           !.info = <<"AF", "=", "0.1">>]),
    DataLine([Plain EXCEPT !.pos = <<"abc">>]),
    DataLine([Plain EXCEPT !.qual = <<".">>, !.pos = <<"200">>, !.alt = <<"C">>,
                           !.info = <<"DP", "=", "30", ";", "AF", "=", ".", ";",
                                      "VAF", "=", "0.5">>]),
    DataLine([Plain EXCEPT !.info = <<"ANN">>]),
    DataLine([Plain EXCEPT !.extra = << <<"GT", ":", "DP", ":", "AD">>,
                                         <<"0/1", ":", "30", ":", "10", ",", "20">>,
                                         <<"1/1", ":", "60", ":", "0", ",", "50">> >>]),
    DataLine([Plain EXCEPT !.extra = << <<"GT", ":", "DP", ":", "AD">>, <<"0/1">> >>]),
    DataLine([Plain EXCEPT !.info =
       <<"ANN", "=">> \o Join(<< <<"G">>, <<"missense_variant">>, <<"MODERATE">>,
                                 <<"BRCA1">> >>, "|")]),
    \* seven fields only
    Join(<< <<"chr1">>, <<"100">>, <<".">>, <<"A">>, <<"G">>, <<"50">>, <<"PASS">> >>, TAB)
      \o <<NL>>,
    <<NL>>,
    <<"#", "comment", NL>> }

\* The allele runs: every pair of a reference and one alternate allele over
\* the four bases and a two-base string, and lines with several alternate
\* alleles
Bases == { <<"A">>, <<"C">>, <<"G">>, <<"T">> }
Alleles == Bases \cup { <<"A", "T">> }
Refs == Bases \cup { <<"A", "T">> }
MultiAlleles == { <<"G">>, <<"T">>, <<"A", "T">> }
MultiRefs == { <<"A">>, <<"A", "T">> }

MaxAlts == 2

AlleleLines ==
  { DataLine([Plain EXCEPT !.ref = r, !.alt = a]) : r \in Refs, a \in Alleles }
  \cup { DataLine([Plain EXCEPT !.ref = r, !.alt = Join(as, ",")]) :
           r \in MultiRefs, as \in SeqsUpTo(MultiAlleles, MaxAlts) \ {<<>>} }

\* The alias runs: INFO strings over the AF aliases and MQ, each key absent
\* or present with a number, and AF also with '.', as a flag and with two
\* sub-values; and an unparsable value under the other keys, a key given
\* twice, the aliases out of order, an empty item
AliasItems ==
  << { <<>>, <<"AF", "=", "0.1">>, <<"AF", "=", ".">>, <<"AF">>,
       <<"AF", "=", "0.5", ",", "0.1">> },
     { <<>>, <<"AF_POPMAX", "=", "0.5">> },
     { <<>>, <<"gnomAD_AF", "=", ".">> },
     { <<>>, <<"VAF", "=", "1">> },
     { <<>>, <<"MQ", "=", "60">> } >>

AliasInfos ==
  { Join(SelectSeq(<<a, b, c, d, e>>, LAMBDA x : x # <<>>), ";") :
      a \in AliasItems[1], b \in AliasItems[2], c \in AliasItems[3],
      d \in AliasItems[4], e \in AliasItems[5] }
  \cup { <<"MQ", "=", ".", ",", "60">>, <<"MQ">>, <<"MQ", "=", "60", ",", ".">>,
         <<"AF", "=", ";", "gnomAD_AF", "=", "0.5">>,
         <<"AF_POPMAX", "=", ".", ";", "gnomAD_AF", ";", "VAF", "=", "0.1">>,
         <<"AF", "=", ".", ";", "AF", "=", "0.1">>,
         <<"AF", "=", "0.1", ";", "AF", "=", ".">>,
         <<"VAF", "=", "1", ";", ";", "AF", "=", "0.5">> }

AliasLines == {DataLine([Plain EXCEPT !.info = i]) : i \in AliasInfos}

\* The CSQ runs.  A schema declaration is the list of its field names and
\* the white space written around each name:
\* ##INFO=<ID=CSQ,Description="Format: name|name|...">
CsqDeclOf(names, pad) ==
  CsqDeclPrefix \o <<",", "Description", "=", "\"", "Format", ":", SP>>
    \o Join([i \in 1..Len(names) |-> pad \o names[i] \o pad], "|")
    \o <<"\"", ">", NL>>

\* Declared schemas: the usual names; CONSEQUENCE in capitals and more names
\* than an entry has values; both spellings of the consequence name; two
\* names only, written with white space around them
CsqSchemas ==
  { [names |-> << <<"Allele">>, <<"Consequence">>, <<"IMPACT">>, <<"SYMBOL">> >>,
     pad |-> <<>>],
    [names |-> << <<"Allele">>, <<"CONSEQUENCE">>, <<"IMPACT">>, <<"SYMBOL">>,
                  <<"HGVSc">>, <<"HGVSp">> >>, pad |-> <<>>],
    [names |-> << <<"Allele">>, <<"Consequence">>, <<"IMPACT">>, <<"SYMBOL">>,
                  <<"CONSEQUENCE">> >>, pad |-> <<>>],
    [names |-> << <<"Allele">>, <<"Consequence">> >>, pad |-> <<SP>>] }

\* A CSQ declaration without a Format clause
CsqNoFormat == CsqDeclPrefix \o <<",", "Number", "=", ".", ">", NL>>

\* The lines before the data lines of the CSQ runs: none at all, no CSQ
\* declaration, one without a Format clause, each declared schema
CsqHeaders ==
  { <<>>, <<MetaLine, ChromLine8>>, <<MetaLine, CsqNoFormat, ChromLine8>> }
  \cup { <<MetaLine, CsqDeclOf(sd.names, sd.pad), ChromLine8>> : sd \in CsqSchemas }

\* CSQ entries: four values; an empty second value and a fifth value
CsqEntries ==
  { Entry(<< <<"G">>, <<"missense_variant">>, <<"HIGH">>, <<"BRCA1">> >>),
    Entry(<< <<"G">>, <<"synonymous_variant">>, <<"LOW">>, <<"TP53">> >>),
    Entry(<< <<"G">>, <<>>, <<"MODERATE">>, <<"TP53">>, <<"stop_gained">> >>) }

\* The INFO strings of the CSQ runs: every list of entries under CSQ, and
\* no annotation, an entry of one value, ANN together with CSQ in either order
CsqInfos ==
  {<<"CSQ", "=">> \o Join(es, ",") : es \in SeqsUpTo(CsqEntries, MaxEntries) \ {<<>>}}
  \cup { <<>>, <<"CSQ", "=", "G">>,
         <<"ANN", "=">> \o Entry(<< <<"G">>, <<"x">>, <<"LOW">>, <<"BRCA1">> >>)
           \o <<";", "CSQ", "=">>
           \o Entry(<< <<"G">>, <<"y">>, <<"HIGH">>, <<"TP53">> >>),
         <<"CSQ", "=">> \o Entry(<< <<"G">>, <<"y">>, <<"HIGH">>, <<"TP53">> >>)
           \o <<";", "ANN", "=">>
           \o Entry(<< <<"G">>, <<"x">>, <<"LOW">>, <<"BRCA1">> >>) }

CsqLines == {DataLine([Plain EXCEPT !.info = i]) : i \in CsqInfos}

\* parse_vcf's default max_variants
DefaultMaxVariants == 500000

MaxData == 2
MaxAnnData == 1
MaxAlleleData == 1
MaxAliasData == 1
MaxCsqData == 1

\* The state on entry to the first loop of parse_vcf
InitParseFrom(HeaderSet, LineSet, n, MaxVs) ==
  /\ \E h \in HeaderSet : \E d \in SeqsUpTo(LineSet, n) : lines = h \o d
  /\ max_variants \in MaxVs
  /\ fh = 1
  /\ pc = "header"
  /\ csq_fields = None
  /\ samples = <<>>
  /\ records = <<>>
  /\ stats = StatsInit
  /\ origin = <<>>
  /\ variants_df = <<>>
  /\ hpo_terms = <<>>
  /\ hpo_map = None
  /\ panel_genes = None
  /\ frame = <<>>

InitParse(LineSet, n, MaxVs) == InitParseFrom(Headers, LineSet, n, MaxVs)

\* The general runs take the default max_variants and every smaller one that
\* can cut the input off
Init == InitParse(GenLines, MaxData, (1..MaxData) \cup {DefaultMaxVariants})
InitAnn == InitParse(AnnLines, MaxAnnData, {DefaultMaxVariants})
InitAllele == InitParse(AlleleLines, MaxAlleleData, {DefaultMaxVariants})
InitAlias == InitParse(AliasLines, MaxAliasData, {DefaultMaxVariants})
InitCsq == InitParseFrom(CsqHeaders, CsqLines, MaxCsqData, {DefaultMaxVariants})

(* ---------------- parse_vcf: the steps ---------------- *)

\* One iteration of the first loop (lines 38-49)
HeaderLine ==
  /\ pc = "header"
  /\ fh <= Len(lines)
  /\ LET line == lines[fh]
     IN IF StartsWith(line, <<"#", "#">>)
        THEN /\ csq_fields' = CsqFieldsAfter(line, csq_fields)
             /\ UNCHANGED <<samples, pc>>
        ELSE IF StartsWith(line, <<"#", "CHROM">>)
        THEN /\ samples' = SamplesOf(line)
             /\ pc' = "records"
             /\ UNCHANGED csq_fields
        ELSE UNCHANGED <<csq_fields, samples, pc>>
  /\ fh' = fh + 1
  /\ UNCHANGED <<lines, max_variants, records, stats, origin, rank_vars>>

\* The first loop runs out of lines without seeing #CHROM
HeaderEOF ==
  /\ pc = "header"
  /\ fh > Len(lines)
  /\ pc' = "records"
  /\ UNCHANGED <<parse_vars, rank_vars>>

\* len(records) >= max_variants, n being len(records) after the append
ReachedMaxLate(n, maxv) == n > maxv
ReachedMax(n, maxv) == n >= maxv

\* One iteration of the record loop (lines 51-143)
RecordLine ==
  /\ pc = "records"
  /\ fh <= Len(lines)
  /\ fh' = fh + 1
  /\ IF Skipped(lines[fh])
     THEN UNCHANGED <<records, stats, origin, pc>>
     ELSE LET r == ParseLine(lines[fh], csq_fields, stats)
          IN /\ stats' = r.stats
             /\ IF r.raises
                THEN /\ pc' = "raised"
                     /\ UNCHANGED <<records, origin>>
                ELSE /\ records' = Append(records, r.rec)
                     /\ origin' = Append(origin, fh)
                     /\ pc' = IF ReachedMax(Len(records) + 1, max_variants)
                              THEN "done" ELSE "records"
  /\ UNCHANGED <<lines, max_variants, csq_fields, samples, rank_vars>>

\* The record loop runs out of lines: return (line 145)
RecordsEOF ==
  /\ pc = "records"
  /\ fh > Len(lines)
  /\ pc' = "done"
  /\ UNCHANGED <<parse_vars, rank_vars>>

Next == HeaderLine \/ HeaderEOF \/ RecordLine \/ RecordsEOF

Spec == Init /\ [][Next]_vars
SpecAnn == InitAnn /\ [][Next]_vars
SpecAllele == InitAllele /\ [][Next]_vars
SpecAlias == InitAlias /\ [][Next]_vars
SpecCsq == InitCsq /\ [][Next]_vars

(* ---------------- parse_vcf as a function of its input ---------------- *)

\* The record loop from line i on; acc is [pc, records, stats]
RECURSIVE RunRecords(_, _, _, _, _)
RunRecords(ls, i, csqf, maxv, acc) ==
  IF i > Len(ls) THEN [acc EXCEPT !.pc = "done"]
  ELSE IF Skipped(ls[i]) THEN RunRecords(ls, i + 1, csqf, maxv, acc)
  ELSE LET r == ParseLine(ls[i], csqf, acc.stats)
           recs == Append(acc.records, r.rec)
       IN IF r.raises
          THEN [pc |-> "raised", records |-> acc.records, stats |-> r.stats]
          ELSE IF ReachedMax(Len(recs), maxv)
          THEN [pc |-> "done", records |-> recs, stats |-> r.stats]
          ELSE RunRecords(ls, i + 1, csqf, maxv,
                          [pc |-> "records", records |-> recs, stats |-> r.stats])

\* The header loop from line i on, then the record loop
RECURSIVE RunParse(_, _, _, _)
RunParse(ls, i, csqf, maxv) ==
  LET start == [pc |-> "records", records |-> <<>>, stats |-> StatsInit]
  IN IF i > Len(ls) THEN RunRecords(ls, i, csqf, maxv, start)
     ELSE IF StartsWith(ls[i], <<"#", "#">>)
     THEN RunParse(ls, i + 1, CsqFieldsAfter(ls[i], csqf), maxv)
     ELSE IF StartsWith(ls[i], <<"#", "CHROM">>)
     THEN RunRecords(ls, i + 1, csqf, maxv, start)
     ELSE RunParse(ls, i + 1, csqf, maxv)

\* parse_vcf(lines, max_variants): how it ends, with which records and stats
parse_vcf(ls, maxv) == RunParse(ls, 1, None, maxv)

(* ---------------- the claims about parse_vcf ---------------- *)

Returned == pc = "done"
Ended == pc \in {"done", "raised"}

\* The tab-delimited fields of a line
FieldsOf(line) == Split(RStripNL(line), TAB)

\* The line records[i] was made from, and its info mapping
LineOf(i) == lines[origin[i]]
InfoOf(i) == InfoDict(FieldsOf(LineOf(i))[8])

\* The annotation payload the code reads for an info mapping: ANN, or CSQ
\* when ANN is absent; HasPayload when that key carries a str
PayloadKey(d) == IF <<"ANN">> \in DOMAIN d THEN <<"ANN">> ELSE <<"CSQ">>
HasPayload(d) == PayloadKey(d) \in DOMAIN d /\ ~d[PayloadKey(d)].flag
PayloadEntries(d) == Split(d[PayloadKey(d)].v, ",")

\* The (sym, ann, imp, hgc, hgp) of entry e under the convention of key k
CandOf(k, e) ==
  IF k = <<"ANN">> THEN AnnCand(e)
  ELSE CsqCand(IF csq_fields = None THEN <<>> ELSE csq_fields[1], e)

\* The precedence table of the claim
Precedence(imp) ==
  IF imp = <<"HIGH">> THEN 3 ELSE IF imp = <<"MODERATE">> THEN 2
  ELSE IF imp = <<"LOW">> THEN 1 ELSE 0

\* The entry the claim selects: the first among those of highest precedence
FirstHighest(k, es) ==
  LET prec == [j \in 1..Len(es) |-> Precedence(CandOf(k, es[j])[3])]
  IN CHOOSE i \in 1..Len(es) :
       /\ \A j \in 1..Len(es) : prec[j] <= prec[i]
       /\ \A j \in 1..(i-1) : prec[j] < prec[i]

RecordCarries(rec, c) ==
  /\ rec.GENE = Some(c[1])
  /\ rec.CONSEQUENCE = Some(c[2])
  /\ rec.IMPACT = Some(c[3])
  /\ rec.HGVSc = Some(c[4])
  /\ rec.HGVSp = Some(c[5])

\* C1: every record made from a line with an ANN payload (CSQ when ANN is
\* absent) carries the gene, consequence, impact and HGVS strings of the entry
\* of highest precedence (HIGH 3, MODERATE 2, LOW 1, anything else 0), the
\* first such entry in input order.
C1_HighestImpactFirstWins ==
  \A i \in 1..Len(records) :
    LET d == InfoOf(i)
        k == PayloadKey(d)
        es == PayloadEntries(d)
    IN HasPayload(d) => RecordCarries(records[i], CandOf(k, es[FirstHighest(k, es)]))

\* C1 witness: a returned record whose payload has two entries of equal,
\* highest precedence and different genes, and the record carries the first.
C1_Witness ==
  /\ Returned
  /\ \E i \in 1..Len(records) :
       /\ HasPayload(InfoOf(i))
       /\ LET k == PayloadKey(InfoOf(i))
              es == PayloadEntries(InfoOf(i))
          IN /\ Len(es) = 2
             /\ Precedence(CandOf(k, es[1])[3]) = 3
             /\ Precedence(CandOf(k, es[2])[3]) = 3
             /\ CandOf(k, es[1])[1] # CandOf(k, es[2])[1]
             /\ records[i].GENE = Some(CandOf(k, es[1])[1])

\* C6 (as claimed): parse_vcf never raises on a data line of eight or more
\* fields.  Every line the record loop parses has eight or more fields, so the
\* claim is that no exception ever leaves parse_vcf.
C6_NeverRaises == pc # "raised"

\* C7 (as claimed): parse_vcf does not return normally when the input has no
\* line starting with #CHROM, or no line with eight or more fields.
NoColumnHeader == \A i \in 1..Len(lines) : ~StartsWith(lines[i], <<"#", "CHROM">>)
NoWideLine == \A i \in 1..Len(lines) : Len(FieldsOf(lines[i])) < 8
C7_StructuralErrorSurfaced == (NoColumnHeader \/ NoWideLine) => ~Returned

\* C8 (as claimed): a record whose info has neither ANN nor CSQ, or whose
\* ANN/CSQ value is the empty string, has GENE, CONSEQUENCE and IMPACT None.
C8_AbsentAnnotationIsNone ==
  \A i \in 1..Len(records) :
    LET d == InfoOf(i)
    IN (PayloadKey(d) \notin DOMAIN d \/ (HasPayload(d) /\ d[PayloadKey(d)].v = <<>>))
       => /\ records[i].GENE = None
          /\ records[i].CONSEQUENCE = None
          /\ records[i].IMPACT = None

\* A data line with fewer than eight tab-delimited fields
ShortLine(line) ==
  Len(line) > 0 /\ ~StartsWith(line, <<"#">>) /\ Len(FieldsOf(line)) < 8

WithoutShortLines(ls) == SelectSeq(ls, LAMBDA l : ~ShortLine(l))

\* C9: an iteration of the record loop on a line with fewer than eight fields
\* changes neither the records nor any statistics counter and stays in the
\* loop; and parse_vcf ends with the records and statistics it ends with on
\* the input with those lines removed.
C9_ShortLineStep ==
  (pc = "records" /\ fh <= Len(lines) /\ ShortLine(lines[fh]))
    => (records' = records /\ stats' = stats /\ pc' = "records" /\ fh' = fh + 1)

C9_SameAsWithout ==
  Ended => [pc |-> pc, records |-> records, stats |-> stats]
             = parse_vcf(WithoutShortLines(lines), max_variants)

C9_ShortLineSkipped == [][C9_ShortLineStep]_vars /\ []C9_SameAsWithout

\* C9 witness: a run that returned a record made from a line that follows a
\* short line.
C9_Witness ==
  /\ Returned
  /\ \E i \in 1..Len(records) :
       \E j \in 1..(origin[i] - 1) :
         ShortLine(lines[j]) /\ \E h \in 1..(j-1) : StartsWith(lines[h], <<"#", "CHROM">>)

\* The number of alternate alleles of a data line the claim counts as SNPs,
\* as transitions, and in all
AltsOf(line) == Split(FieldsOf(line)[5], ",")
SingleBase(s) == Len(s) = 1
ClaimSnps(line) ==
  Cardinality({j \in 1..Len(AltsOf(line)) :
                 SingleBase(FieldsOf(line)[4]) /\ SingleBase(AltsOf(line)[j])})
ClaimTi(line) ==
  Cardinality({j \in 1..Len(AltsOf(line)) :
                 /\ SingleBase(FieldsOf(line)[4]) /\ SingleBase(AltsOf(line)[j])
                 /\ \/ FieldsOf(line)[4] = <<"A">> /\ AltsOf(line)[j] = <<"G">>
                    \/ FieldsOf(line)[4] = <<"G">> /\ AltsOf(line)[j] = <<"A">>
                    \/ FieldsOf(line)[4] = <<"C">> /\ AltsOf(line)[j] = <<"T">>
                    \/ FieldsOf(line)[4] = <<"T">> /\ AltsOf(line)[j] = <<"C">>})

\* C10: an iteration of the record loop on a line that is not passed over
\* adds to snps the number of single-base alternate alleles (REF a single
\* base), to indels the number of the others, to ti the number of SNP alleles
\* that make one of A-G, G-A, C-T, T-C with REF, and to tv the other SNP
\* alleles; so snps + indels grows by the number of alternate alleles.
C10_AlleleStep ==
  (pc = "records" /\ fh <= Len(lines) /\ ~Skipped(lines[fh]))
    => LET l == lines[fh]
       IN /\ stats'.snps = stats.snps + ClaimSnps(l)
          /\ stats'.indels = stats.indels + (Len(AltsOf(l)) - ClaimSnps(l))
          /\ stats'.ti = stats.ti + ClaimTi(l)
          /\ stats'.tv = stats.tv + (ClaimSnps(l) - ClaimTi(l))

C10_AllelesCounted == [][C10_AlleleStep]_vars

\* C10 witness: a returned run over one line with two alternate alleles, one
\* counted as a SNP and transition, the other as an indel.
C10_Witness ==
  /\ Returned
  /\ Len(records) = 1
  /\ Len(AltsOf(LineOf(1))) = 2
  /\ stats.snps = 1 /\ stats.ti = 1 /\ stats.tv = 0 /\ stats.indels = 1

\* Every line has been read and parse_vcf returned
ConsumedCompletely == Returned /\ fh > Len(lines)

\* The index of the column-header line (0 without one): the first line
\* starting with #CHROM
ColumnHeaderAt(ls) ==
  LET hs == {i \in 1..Len(ls) : StartsWith(ls[i], <<"#", "CHROM">>)}
  IN IF hs = {} THEN 0 ELSE CHOOSE i \in hs : \A j \in hs : i <= j

\* The indices of the data lines with at least eight fields that follow the
\* column-header line
WideDataLines(ls) ==
  IF ColumnHeaderAt(ls) = 0 THEN {}
  ELSE {i \in (ColumnHeaderAt(ls) + 1)..Len(ls) :
          /\ Len(ls[i]) > 0
          /\ ~StartsWith(ls[i], <<"#">>)
          /\ Len(FieldsOf(ls[i])) >= 8}

FilterOf(line) == FieldsOf(line)[7]
ChromOf(line) == FieldsOf(line)[1]

\* filters maps each FILTER value of the counted lines to the number of
\* those lines carrying it, and nothing else
FiltersCount(ls) ==
  /\ DOMAIN stats.filters = {FilterOf(ls[i]) : i \in WideDataLines(ls)}
  /\ \A f \in DOMAIN stats.filters :
       stats.filters[f] = Cardinality({i \in WideDataLines(ls) : FilterOf(ls[i]) = f})

\* C11 (as claimed): after an input has been consumed completely, n_total is
\* the number of data lines with at least eight fields after the
\* column-header line, n_pass the number of those whose FILTER is PASS, and
\* filters maps each FILTER value to the number of those lines carrying it.
C11_PassCountsOnlyPASS ==
  ConsumedCompletely =>
    /\ stats.n_total = Cardinality(WideDataLines(lines))
    /\ stats.n_pass =
         Cardinality({i \in WideDataLines(lines) : FilterOf(lines[i]) = <<"PASS">>})
    /\ FiltersCount(lines)

\* C11 (amended): as claimed, except that n_pass is the number of those lines
\* whose FILTER is PASS or "." (no filter applied).
C11_StatsCountLines ==
  ConsumedCompletely =>
    /\ stats.n_total = Cardinality(WideDataLines(lines))
    /\ stats.n_pass =
         Cardinality({i \in WideDataLines(lines) :
                        FilterOf(lines[i]) \in {<<"PASS">>, <<".">>}})
    /\ FiltersCount(lines)

\* C11 witness: an input consumed completely whose two data lines carry the
\* FILTER values "." and a named failure; one of the two is counted in n_pass.
C11_Witness ==
  /\ ConsumedCompletely
  /\ stats.n_total = 2
  /\ stats.n_pass = 1
  /\ DOMAIN stats.filters = {<<".">>, <<"q10">>}

\* The lines up to and including the column-header line, and those after it
HeaderPart(ls) == SubSeq(ls, 1, ColumnHeaderAt(ls))
DataPart(ls) == SubSeq(ls, ColumnHeaderAt(ls) + 1, Len(ls))

\* The rearrangements of 1..n
Rearrangements(n) == {p \in [1..n -> 1..n] : \A i, j \in 1..n : p[i] = p[j] => i = j}

\* The inputs with the header of ls whose data lines are a permutation of
\* those of ls
Permuted(ls) ==
  LET d == DataPart(ls)
  IN {HeaderPart(ls) \o [i \in 1..Len(d) |-> d[p[i]]] : p \in Rearrangements(Len(d))}

\* The data lines the record loop does not pass over
FoldedLines(ls) ==
  {i \in (ColumnHeaderAt(ls) + 1)..Len(ls) : ColumnHeaderAt(ls) > 0 /\ ~Skipped(ls[i])}

\* C12: when parse_vcf returns on an input with fewer data lines than
\* max_variants, it returns with the same statistics on every input with the
\* same header whose data lines are a permutation of this input's, and every
\* data line has been counted exactly once.
C12_FoldOrderIndependent ==
  (Returned /\ Cardinality(FoldedLines(lines)) < max_variants) =>
    /\ stats.n_total = Cardinality(FoldedLines(lines))
    /\ \A ls \in Permuted(lines) :
         LET r == parse_vcf(ls, max_variants)
         IN r.pc = "done" /\ r.stats = stats

\* C12 witness: a returned run over two data lines of different chromosomes
\* and FILTER values, both counted; the input with the two exchanged is
\* another input.
C12_Witness ==
  /\ Returned
  /\ Cardinality(FoldedLines(lines)) = 2
  /\ Cardinality(FoldedLines(lines)) < max_variants
  /\ stats.n_total = 2
  /\ Cardinality(DOMAIN stats.by_chrom) = 2
  /\ Cardinality(DOMAIN stats.filters) = 2
  /\ \E ls \in Permuted(lines) : ls # lines

\* float() of the first comma-separated sub-value under key k of the info
\* mapping d; None for an unparsable one and for a valueless flag
AliasValue(d, k) ==
  IF d[k].flag THEN None ELSE FloatOfStr(Split(d[k].v, ",")[1])

\* The first position in keys satisfying P (0 when there is none)
FirstWhere(keys, P(_)) ==
  LET hits == {j \in 1..Len(keys) : P(keys[j])}
  IN IF hits = {} THEN 0 ELSE CHOOSE j \in hits : \A h \in hits : j <= h

\* The field the claim gives: the value of the first alias present
FromFirstPresent(d, keys) ==
  LET j == FirstWhere(keys, LAMBDA k : k \in DOMAIN d)
  IN IF j = 0 THEN None ELSE AliasValue(d, keys[j])

\* The value of the first alias present whose value parses
FromFirstParsable(d, keys) ==
  LET j == FirstWhere(keys, LAMBDA k : k \in DOMAIN d /\ AliasValue(d, k) # None)
  IN IF j = 0 THEN None ELSE AliasValue(d, keys[j])

ClaimAFKeys == << <<"AF">>, <<"AF_POPMAX">>, <<"gnomAD_AF">>, <<"VAF">> >>
ClaimMQKeys == << <<"MQ">> >>

\* C13 (as claimed): every record's AF is the first comma-separated sub-value
\* of the first alias, in the order AF, AF_POPMAX, gnomAD_AF, VAF, that is a key
\* of the info mapping (MQ from MQ); when that value does not parse the field
\* is absent and later aliases are not consulted.
C13_FirstPresentAliasOnly ==
  \A i \in 1..Len(records) :
    /\ records[i].AF = FromFirstPresent(InfoOf(i), ClaimAFKeys)
    /\ records[i].MQ = FromFirstPresent(InfoOf(i), ClaimMQKeys)

\* C13 (amended): every record's AF is the first comma-separated sub-value of
\* the first alias in that order that is a key of the info mapping and whose
\* first sub-value parses as a number (MQ from MQ); an alias whose value does
\* not parse is passed over, and the field is absent when no alias parses.
C13_FirstParsableAlias ==
  \A i \in 1..Len(records) :
    /\ records[i].AF = FromFirstParsable(InfoOf(i), ClaimAFKeys)
    /\ records[i].MQ = FromFirstParsable(InfoOf(i), ClaimMQKeys)

\* C13 witness: a returned record whose info has AF with an unparsable value
\* and two later aliases with numbers; the record's AF is the number of the
\* earlier of the two.
C13_Witness ==
  /\ Returned
  /\ \E i \in 1..Len(records) :
       LET d == InfoOf(i)
       IN /\ {<<"AF">>, <<"AF_POPMAX">>, <<"VAF">>} \subseteq DOMAIN d
          /\ AliasValue(d, <<"AF">>) = None
          /\ AliasValue(d, <<"AF_POPMAX">>) # None
          /\ AliasValue(d, <<"VAF">>) # None
          /\ AliasValue(d, <<"AF_POPMAX">>) # AliasValue(d, <<"VAF">>)
          /\ records[i].AF = AliasValue(d, <<"AF_POPMAX">>)

\* The schema the header of the input declares: Some(names), or None
DeclaredNames(ls) ==
  LET ds == {sd \in CsqSchemas :
               \E i \in 1..Len(ls) : ls[i] = CsqDeclOf(sd.names, sd.pad)}
  IN IF ds = {} THEN None ELSE Some((CHOOSE sd \in ds : TRUE).names)

\* The pairing of the claim: the values of an entry stored one position
\* after the other under the declared name of the position, or under F<index>
\* beyond the declared names; a declared name without a value stores ""
RECURSIVE StorePairs(_, _, _, _)
StorePairs(names, vals, i, m) ==
  IF i >= Len(names) /\ i >= Len(vals) THEN m
  ELSE LET key == IF i < Len(names) THEN names[i + 1] ELSE <<FName[i + 1]>>
           val == IF i < Len(vals) THEN vals[i + 1] ELSE <<>>
       IN StorePairs(names, vals, i + 1,
                     [k \in DOMAIN m \cup {key} |-> IF k = key THEN val ELSE m[k]])

Paired(names, e) == StorePairs(names, Split(e, "|"), 0, <<>>)

\* The value under a name, "" when nothing is stored under it
Under(m, k) == IF k \in DOMAIN m THEN m[k] ELSE <<>>

\* (gene, consequence, impact) of an entry as claimed, and with the
\* consequence read under CONSEQUENCE when it is empty under Consequence
ClaimedCsq(names, e) ==
  LET m == Paired(names, e)
  IN <<Under(m, <<"SYMBOL">>), Under(m, <<"Consequence">>), Under(m, <<"IMPACT">>)>>

AmendedCsq(names, e) ==
  LET m == Paired(names, e)
      c == Under(m, <<"Consequence">>)
  IN <<Under(m, <<"SYMBOL">>),
       IF c # <<>> THEN c ELSE Under(m, <<"CONSEQUENCE">>),
       Under(m, <<"IMPACT">>)>>

\* The first entry among those of highest precedence, by impact
FirstHighestBy(imps) ==
  CHOOSE i \in 1..Len(imps) :
    /\ \A j \in 1..Len(imps) : Precedence(imps[j]) <= Precedence(imps[i])
    /\ \A j \in 1..(i-1) : Precedence(imps[j]) < Precedence(imps[i])

CarriesTriple(rec, t) ==
  rec.GENE = Some(t[1]) /\ rec.CONSEQUENCE = Some(t[2]) /\ rec.IMPACT = Some(t[3])

\* The claim for record i, the triple of an entry being Triple(names, e)
CsqClaimAt(i, Triple(_, _)) ==
  LET d == InfoOf(i)
      decl == DeclaredNames(lines)
      names == IF decl = None THEN <<>> ELSE decl[1]
  IN /\ (<<"CSQ">> \in DOMAIN d /\ <<"ANN">> \notin DOMAIN d /\ ~d[<<"CSQ">>].flag) =>
          LET es == Split(d[<<"CSQ">>].v, ",")
              ts == [j \in 1..Len(es) |-> Triple(names, es[j])]
              imps == [j \in 1..Len(es) |-> ts[j][3]]
          IN /\ CarriesTriple(records[i], ts[FirstHighestBy(imps)])
             /\ decl = None =>
                  /\ CarriesTriple(records[i], << <<>>, <<>>, <<>> >>)
                  /\ \A j \in 1..Len(es) : Precedence(imps[j]) = 0
     /\ (<<"CSQ">> \in DOMAIN d /\ <<"ANN">> \in DOMAIN d /\ ~d[<<"ANN">>].flag) =>
          LET as == Split(d[<<"ANN">>].v, ",")
              cs == [j \in 1..Len(as) |-> AnnCand(as[j])]
              c == cs[FirstHighestBy([j \in 1..Len(as) |-> cs[j][3]])]
          IN CarriesTriple(records[i], <<c[1], c[2], c[3]>>)

\* C14 (as claimed): for a record with CSQ and no ANN, the entries' values
\* are paired positionally with the declared names and the record's gene,
\* impact and consequence are the selected entry's values under SYMBOL, IMPACT
\* and Consequence; without a declared schema all three are empty and every
\* entry has precedence 0; with both ANN and CSQ only ANN is used.
C14_CsqByDeclaredNames == \A i \in 1..Len(records) : CsqClaimAt(i, ClaimedCsq)

\* C14 (amended): as claimed, except that the consequence is the value under
\* Consequence or, when that is empty or not declared, the value under
\* CONSEQUENCE.
C14_CsqConsequenceEitherCase == \A i \in 1..Len(records) : CsqClaimAt(i, AmendedCsq)

\* C14 witness: a returned record made from two CSQ entries under a declared
\* schema with more names than the entries have values; the record carries
\* the gene and impact of the second entry, of higher precedence.
C14_Witness ==
  /\ Returned
  /\ DeclaredNames(lines) # None
  /\ \E i \in 1..Len(records) :
       LET d == InfoOf(i)
       IN /\ <<"CSQ">> \in DOMAIN d /\ <<"ANN">> \notin DOMAIN d
          /\ LET es == Split(d[<<"CSQ">>].v, ",")
                 names == DeclaredNames(lines)[1]
             IN /\ Len(es) = 2
                /\ Len(names) > Len(Split(es[2], "|"))
                /\ Precedence(ClaimedCsq(names, es[1])[3])
                     < Precedence(ClaimedCsq(names, es[2])[3])
                /\ records[i].GENE = Some(ClaimedCsq(names, es[2])[1])
                /\ records[i].GENE # Some(ClaimedCsq(names, es[1])[1])

\* The sum of the counts of a histogram
RECURSIVE SumOver(_, _)
SumOver(d, ks) ==
  IF ks = {} THEN 0
  ELSE LET k == CHOOSE x \in ks : TRUE IN d[k] + SumOver(d, ks \ {k})

SumCounts(d) == SumOver(d, DOMAIN d)

\* C15: between any two iterations of the record loop, and when parse_vcf
\* ends, ti + tv = snps, snps + indels >= n_total, n_pass <= n_total, and the
\* by_chrom counts and the filters counts each sum to n_total.
C15_StatsConsistent ==
  /\ stats.ti + stats.tv = stats.snps
  /\ stats.snps + stats.indels >= stats.n_total
  /\ stats.n_pass <= stats.n_total
  /\ SumCounts(stats.by_chrom) = stats.n_total
  /\ SumCounts(stats.filters) = stats.n_total

\* C15 witness: the record loop has processed two lines of different
\* chromosomes and FILTER values, one of them with several alternate alleles,
\* and has counted a transition, two indels and a line that did not pass.
C15_Witness ==
  /\ pc = "records"
  /\ stats.n_total = 2
  /\ stats.snps + stats.indels > stats.n_total
  /\ stats.ti = 1 /\ stats.indels = 2
  /\ stats.n_pass < stats.n_total
  /\ Cardinality(DOMAIN stats.by_chrom) = 2
  /\ Cardinality(DOMAIN stats.filters) = 2

\* The number of elements of S below i
Below(S, i) == Cardinality({j \in S : j < i})

\* The indices of the first n lines the record loop does not pass over
FirstFolded(ls, n) == {i \in FoldedLines(ls) : Below(FoldedLines(ls), i) < n}

\* C16: when parse_vcf returns with max_variants >= 1, it returns at most
\* max_variants records and as many as n_total; the records are those of the
\* first data lines, in input order; once max_variants records are
\* collected no further line is read, and records and statistics are the ones
\* parse_vcf returns on the input cut off after the last line read.
C16_StopsAtMaxVariants ==
  (Returned /\ max_variants >= 1) =>
    /\ Len(records) <= max_variants
    /\ stats.n_total = Len(records)
    /\ \A i, j \in 1..Len(records) : i < j => origin[i] < origin[j]
    /\ {origin[i] : i \in 1..Len(records)} = FirstFolded(lines, max_variants)
    /\ \A i \in 1..Len(records) :
         records[i] = ParseLine(lines[origin[i]], csq_fields, StatsInit).rec
    /\ Len(records) = max_variants => fh = origin[Len(records)] + 1
    /\ [pc |-> "done", records |-> records, stats |-> stats]
         = parse_vcf(SubSeq(lines, 1, fh - 1), max_variants)

\* C16 witness: parse_vcf returned max_variants records and the next line,
\* which was not read, is a data line the record loop would have counted.
C16_Witness ==
  /\ Returned
  /\ Len(records) = max_variants
  /\ fh <= Len(lines)
  /\ ~Skipped(lines[fh])
  /\ stats.n_total = max_variants

(* ---------------- load_hpo_map, phenotype_score, prioritize ---------------- *)

\* A data frame is the sequence of its rows.  A row of variants_df holds the
\* columns the two functions read, GENE and IMPACT (None or Some(str)) and AF
\* (None or Some(float)); the other columns of a record are carried along
\* unchanged.  A row of a mapping table is [HPO_ID, GeneSymbol], each None
\* (a missing cell) or Some(str).

\* load_hpo_map on a table that has the two columns: dropna, then GeneSymbol
\* upper-cased and stripped, HPO_ID stripped
load_hpo_map(table) ==
  LET kept == SelectSeq(table, LAMBDA m : m.HPO_ID # None /\ m.GeneSymbol # None)
  IN [i \in 1..Len(kept) |->
        [HPO_ID |-> Some(Strip(kept[i].HPO_ID[1])),
         GeneSymbol |-> Some(Strip(Upper(kept[i].GeneSymbol[1])))]]

\* [t.strip() for t in hpo_terms if t.strip()], as the set isin() tests
QueryTerms(terms) ==
  {Strip(terms[i]) : i \in {j \in 1..Len(terms) : Strip(terms[j]) # <<>>}}

\* gene_counts.get(g): the number of rows of hpo_map whose HPO_ID is in the
\* terms and whose GeneSymbol is g (groupby("GeneSymbol").size()); None where
\* no such row exists
GeneCount(map, terms, g) ==
  LET hits == {i \in 1..Len(map) : /\ map[i].HPO_ID[1] \in QueryTerms(terms)
                                   /\ map[i].GeneSymbol = Some(g)}
  IN IF hits = {} THEN None ELSE Some(Cardinality(hits))

\* v["GENE"].fillna("").str.upper()
GeneUp(row) == IF row.GENE = None THEN <<>> ELSE Upper(row.GENE[1])

\* set([g.strip().upper() for g in panel_genes if g and isinstance(g, str)]);
\* an entry that is not a str is None here
PanelSet(panel) ==
  {Upper(Strip(panel[i][1])) :
     i \in {j \in 1..Len(panel) : panel[j] # None /\ panel[j][1] # <<>>}}

\* PHENO_SCORE of a row (lines 196, 199-204)
PhenoScore(row, terms, map) ==
  IF map # None /\ Len(terms) > 0
  THEN LET c == GeneCount(map[1], terms, GeneUp(row))
       IN IF c = None THEN 0 ELSE c[1]
  ELSE 0

\* PANEL_MATCH of a row (lines 197, 208-210)
PanelMatch(row, panel) ==
  IF panel # None /\ Len(panel[1]) > 0
  THEN GeneUp(row) \in PanelSet(panel[1])
  ELSE FALSE

\* phenotype_score(variants_df, hpo_terms, hpo_map, panel_genes)
phenotype_score(v, terms, map, panel) ==
  [i \in 1..Len(v) |->
     [GENE |-> v[i].GENE, IMPACT |-> v[i].IMPACT, AF |-> v[i].AF,
      PHENO_MATCH |-> PhenoScore(v[i], terms, map) > 0,
      PHENO_SCORE |-> PhenoScore(v[i], terms, map),
      PANEL_MATCH |-> PanelMatch(v[i], panel)]]

\* f["IMPACT"].map(imp_rank).fillna(0)
ImpRank(impact) == IF impact = None THEN 0 ELSE ImpactRank(impact[1])

\* f["AF"].fillna(0.5).clip(0, 1), in tenths
EffectiveAFZeroFill(af) ==
  IF af = None THEN 0 ELSE IF af[1] < 0 THEN 0 ELSE IF af[1] > 10 THEN 10 ELSE af[1]
EffectiveAF(af) ==
  IF af = None THEN 5 ELSE IF af[1] < 0 THEN 0 ELSE IF af[1] > 10 THEN 10 ELSE af[1]

\* (2.0*IMPACT_RANK) + (1.5*PHENO_SCORE) + (1.0*rarity), in tenths
PriorityScore(row) ==
  20 * ImpRank(row.IMPACT) + 15 * row.PHENO_SCORE + (10 - EffectiveAF(row.AF))

\* The row with IMPACT_RANK and PRIORITY_SCORE set
WithScore(row) ==
  [GENE |-> row.GENE, IMPACT |-> row.IMPACT, AF |-> row.AF,
   PHENO_MATCH |-> row.PHENO_MATCH, PHENO_SCORE |-> row.PHENO_SCORE,
   PANEL_MATCH |-> row.PANEL_MATCH,
   IMPACT_RANK |-> ImpRank(row.IMPACT), PRIORITY_SCORE |-> PriorityScore(row)]

BoolKey(b) == IF b THEN 1 ELSE 0

\* Row a sorts strictly before row b: descending on PANEL_MATCH, then
\* PHENO_MATCH, then PRIORITY_SCORE
SortsBefore(a, b) ==
  \/ BoolKey(a.PANEL_MATCH) > BoolKey(b.PANEL_MATCH)
  \/ /\ a.PANEL_MATCH = b.PANEL_MATCH
     /\ \/ BoolKey(a.PHENO_MATCH) > BoolKey(b.PHENO_MATCH)
        \/ /\ a.PHENO_MATCH = b.PHENO_MATCH
           /\ a.PRIORITY_SCORE > b.PRIORITY_SCORE

\* sorted with row r placed: behind every row that does not sort after it, so
\* behind the rows of equal keys that came earlier (the multi-column
\* sort_values is pandas' lexsort, a stable sort)
InsertTiesFirst(sorted, r) ==
  LET n == Cardinality({i \in 1..Len(sorted) : SortsBefore(sorted[i], r)})
  IN SubSeq(sorted, 1, n) \o <<r>> \o SubSeq(sorted, n + 1, Len(sorted))
Insert(sorted, r) ==
  LET n == Cardinality({i \in 1..Len(sorted) : ~SortsBefore(r, sorted[i])})
  IN SubSeq(sorted, 1, n) \o <<r>> \o SubSeq(sorted, n + 1, Len(sorted))

\* f.sort_values([...], ascending=[False, False, False]).reset_index(drop=True)
RECURSIVE SortFrom(_, _)
SortFrom(rows, sorted) ==
  IF Len(rows) = 0 THEN sorted ELSE SortFrom(Tail(rows), Insert(sorted, Head(rows)))

\* prioritize(df)
prioritize(df) == SortFrom([i \in 1..Len(df) |-> WithScore(df[i])], <<>>)

(* ---------------- inputs of the ranking runs ---------------- *)

Row(g, imp, af) == [GENE |-> g, IMPACT |-> imp, AF |-> af]

Genes == { None, Some(<<>>), Some(<<"BRCA1">>), Some(<<"brca1">>), Some(<<"TP53">>) }

\* The rows of the scoring runs differ in GENE only
ScoreRows == {Row(g, Some(<<"HIGH">>), None) : g \in Genes}

\* The rows of the ordering runs: equal keys on different rows, every impact,
\* AF absent, inside and outside [0, 1]
RankRows ==
  { Row(Some(<<"BRCA1">>), Some(<<"HIGH">>), None),
    Row(Some(<<"BRCA1">>), Some(<<"HIGH">>), Some(5)),
    Row(Some(<<"TP53">>), Some(<<"HIGH">>), None),
    Row(Some(<<"TP53">>), Some(<<"LOW">>), Some(1)),
    Row(None, Some(<<"HIGH">>), Some(5)),
    Row(None, Some(<<"HIGH">>), None),
    Row(None, None, Some(15)),
    Row(Some(<<"BRCA1">>), Some(<<"x">>), Some(-5)),
    Row(Some(<<"TP53">>), Some(<<"MODERATE">>), Some(0)),
    Row(None, Some(<<"MODIFIER">>), Some(10)) }

MapRow(t, g) == [HPO_ID |-> t, GeneSymbol |-> g]

MapRows ==
  { MapRow(Some(<<"HP:1">>), Some(<<"BRCA1">>)),
    MapRow(Some(<<"HP:2", SP>>), Some(<<SP, "brca1">>)),
    MapRow(Some(<<"HP:1">>), Some(<<"TP53">>)),
    MapRow(Some(<<"HP:3">>), None) }

TermLists == { <<>>, << <<"HP:1">> >>, << <<SP, "HP:1">>, <<"HP:2">>, <<"HP:1">> >>, << <<SP>> >> }

Panels ==
  { None, Some(<<>>), Some(<< Some(<<SP>>) >>), Some(<< Some(<<"brca1", SP>>), None >>),
    Some(<< Some(<<>>), Some(<<"TP53">>) >>) }

MaxScoreRows == 1
MaxMapRows == 2
MaxRankRows == 3

RankMap ==
  Some(<<MapRow(Some(<<"HP:1">>), Some(<<"BRCA1">>)),
         MapRow(Some(<<"HP:2">>), Some(<<"BRCA1">>)),
         MapRow(Some(<<"HP:1">>), Some(<<"TP53">>))>>)

\* The state before load_hpo_map: parse_vcf's variables are not used
InitRank ==
  /\ \/ /\ variants_df \in SeqsUpTo(ScoreRows, MaxScoreRows)
        /\ hpo_terms \in TermLists
        /\ hpo_map \in {None} \cup {Some(t) : t \in SeqsUpTo(MapRows, MaxMapRows)}
        /\ panel_genes \in Panels
     \/ /\ variants_df \in SeqsUpTo(RankRows, MaxRankRows)
        /\ hpo_terms \in { << <<"HP:1">> >>, << <<"HP:1">>, <<"HP:2">> >> }
        /\ hpo_map = RankMap
        /\ panel_genes \in { None, Some(<< Some(<<"TP53">>) >>) }
  /\ frame = <<>>
  /\ pc = "load"
  /\ lines = <<>>
  /\ max_variants = DefaultMaxVariants
  /\ fh = 1
  /\ csq_fields = None
  /\ samples = <<>>
  /\ records = <<>>
  /\ stats = StatsInit
  /\ origin = <<>>

(* ---------------- the ranking steps (app.py lines 146-162) ---------------- *)

\* hpo_map = load_hpo_map(hpo_map) when a table was supplied
LoadHpoMap ==
  /\ pc = "load"
  /\ hpo_map # None
  /\ hpo_map' = Some(load_hpo_map(hpo_map[1]))
  /\ pc' = "score"
  /\ UNCHANGED <<parse_vars, variants_df, hpo_terms, panel_genes, frame>>

\* no table was supplied: hpo_map stays None
NoHpoMap ==
  /\ pc = "load"
  /\ hpo_map = None
  /\ pc' = "score"
  /\ UNCHANGED <<parse_vars, rank_vars>>

\* scored = phenotype_score(f, hpo_terms, hpo_map=hpo_map, panel_genes=panel_genes)
PhenotypeScore ==
  /\ pc = "score"
  /\ frame' = phenotype_score(variants_df, hpo_terms, hpo_map, panel_genes)
  /\ pc' = "scored"
  /\ UNCHANGED <<parse_vars, variants_df, hpo_terms, hpo_map, panel_genes>>

\* prioritized = prioritize(scored)
Prioritize ==
  /\ pc = "scored"
  /\ frame' = prioritize(frame)
  /\ pc' = "ranked"
  /\ UNCHANGED <<parse_vars, variants_df, hpo_terms, hpo_map, panel_genes>>

\* prioritize run again, on its own output
PrioritizeAgain ==
  /\ pc = "ranked"
  /\ frame' = prioritize(frame)
  /\ pc' = "reranked"
  /\ UNCHANGED <<parse_vars, variants_df, hpo_terms, hpo_map, panel_genes>>

NextRank == LoadHpoMap \/ NoHpoMap \/ PhenotypeScore \/ Prioritize \/ PrioritizeAgain

SpecRank == InitRank /\ [][NextRank]_vars

(* ---------------- the claims about phenotype_score and prioritize ---------------- *)

\* The frame phenotype_score returned, with the scores prioritize computes,
\* in input order
ScoredInput ==
  LET sc == phenotype_score(variants_df, hpo_terms, hpo_map, panel_genes)
  IN [i \in 1..Len(sc) |-> WithScore(sc[i])]

IndexOrders(n) == {p \in [1..n -> 1..n] : \A i, j \in 1..n : p[i] = p[j] => i = j}

KeyOf(r) == <<BoolKey(r.PANEL_MATCH), BoolKey(r.PHENO_MATCH), r.PRIORITY_SCORE>>

\* Key a is at least key b, compared lexicographically
KeyGeq(a, b) ==
  \/ a[1] > b[1]
  \/ a[1] = b[1] /\ a[2] > b[2]
  \/ a[1] = b[1] /\ a[2] = b[2] /\ a[3] >= b[3]

\* out is inp reordered, descending by key, rows of equal keys in input order
StableDescending(inp, out) ==
  /\ Len(out) = Len(inp)
  /\ \E p \in IndexOrders(Len(inp)) :
       /\ \A k \in 1..Len(inp) : out[k] = inp[p[k]]
       /\ \A k, l \in 1..Len(inp) :
            k < l => /\ KeyGeq(KeyOf(out[k]), KeyOf(out[l]))
                     /\ KeyOf(out[k]) = KeyOf(out[l]) => p[k] < p[l]

\* C2: prioritize returns the rows descending by (PANEL_MATCH, PHENO_MATCH,
\* PRIORITY_SCORE), rows of equal keys in their input order; and prioritize
\* run on its own output returns it unchanged.
C2_Ordered ==
  /\ pc = "ranked" => StableDescending(ScoredInput, frame)
  /\ pc = "reranked" => StableDescending(ScoredInput, frame)

C2_RerunStep == pc = "ranked" => frame' = frame

C2_StableDescendingSort == []C2_Ordered /\ [][C2_RerunStep]_vars

\* C2 witness: a ranked frame in which two different rows of equal keys
\* stand in input order behind a row that came after them in the input.
C2_Witness ==
  /\ pc = "reranked"
  /\ Len(frame) = 3
  /\ frame[1] = ScoredInput[3]
  /\ frame[2] = ScoredInput[1]
  /\ frame[3] = ScoredInput[2]
  /\ KeyOf(frame[2]) = KeyOf(frame[3])
  /\ frame[2] # frame[3]

\* The impact rank of the claim: 3/2/1/0, 0 for an absent or unrecognized impact
ClaimRank(impact) ==
  IF impact = Some(<<"HIGH">>) THEN 3
  ELSE IF impact = Some(<<"MODERATE">>) THEN 2
  ELSE IF impact = Some(<<"LOW">>) THEN 1 ELSE 0

Ranked == pc \in {"ranked", "reranked"}

\* C3 (as claimed): PRIORITY_SCORE = 2.0*rank + 1.5*PHENO_SCORE + 1.0*(1 - AF),
\* AF as it stands in the record when present, 0.5 when absent (in tenths).
C3_ScoreFromRawAF ==
  Ranked =>
    \A i \in 1..Len(frame) :
      frame[i].PRIORITY_SCORE =
        20 * ClaimRank(frame[i].IMPACT) + 15 * frame[i].PHENO_SCORE
          + (10 - (IF frame[i].AF = None THEN 5 ELSE frame[i].AF[1]))

\* AF limited to [0, 1], in tenths
Clamped(x) == IF x < 0 THEN 0 ELSE IF x > 10 THEN 10 ELSE x

\* C3 (amended): PRIORITY_SCORE = 2.0*rank + 1.5*PHENO_SCORE + 1.0*(1 - e),
\* where e is 0.5 when AF is absent and otherwise AF limited to [0, 1]
\* (an AF below 0 counts as 0, an AF above 1 as 1).
C3_ScoreFromClampedAF ==
  Ranked =>
    \A i \in 1..Len(frame) :
      frame[i].PRIORITY_SCORE =
        20 * ClaimRank(frame[i].IMPACT) + 15 * frame[i].PHENO_SCORE
          + (10 - (IF frame[i].AF = None THEN 5 ELSE Clamped(frame[i].AF[1])))

\* C3 witness: a ranked frame with a row of absent AF, impact HIGH and
\* phenotype score 0 that scores 6.5, and a row whose AF lies outside [0, 1].
C3_Witness ==
  /\ Ranked
  /\ \E i \in 1..Len(frame) :
       /\ frame[i].AF = None /\ frame[i].IMPACT = Some(<<"HIGH">>)
       /\ frame[i].PHENO_SCORE = 0 /\ frame[i].PRIORITY_SCORE = 65
  /\ \E i \in 1..Len(frame) : frame[i].AF # None /\ frame[i].AF[1] > 10

\* The distinct (term, gene) rows of the mapping table whose term is in the
\* query set and whose gene is g
DistinctMatches(g) ==
  {<<hpo_map[1][i].HPO_ID, hpo_map[1][i].GeneSymbol>> :
     i \in {j \in 1..Len(hpo_map[1]) :
              /\ hpo_map[1][j].HPO_ID[1] \in QueryTerms(hpo_terms)
              /\ hpo_map[1][j].GeneSymbol = Some(g)}}

\* C4 (as claimed): PHENO_SCORE is the number of distinct mapping rows whose
\* term is in the query set and whose gene is the record's upper-cased gene,
\* 0 without a table, without a query term or without a gene; and PHENO_MATCH
\* is PHENO_SCORE > 0.
C4_PhenoScoreCountsDistinctRows ==
  pc = "scored" =>
    \A i \in 1..Len(frame) :
      /\ frame[i].PHENO_SCORE =
           (IF hpo_map = None \/ QueryTerms(hpo_terms) = {} \/ frame[i].GENE = None
            THEN 0
            ELSE Cardinality(DistinctMatches(Upper(frame[i].GENE[1]))))
      /\ frame[i].PHENO_MATCH = (frame[i].PHENO_SCORE > 0)

\* C5 (as claimed): PANEL_MATCH is true exactly when the record has a gene
\* and its upper-cased gene is in the upper-cased, stripped panel; false for
\* every record without a gene and for every record when no panel is given.
C5_PanelMatchNeedsGene ==
  pc = "scored" =>
    \A i \in 1..Len(frame) :
      frame[i].PANEL_MATCH =
        (/\ frame[i].GENE # None
         /\ panel_genes # None
         /\ Upper(frame[i].GENE[1]) \in
              {Upper(Strip(panel_genes[1][j][1])) :
                 j \in {k \in 1..Len(panel_genes[1]) : panel_genes[1][k] # None}})

====
